---- MODULE Spec2Model ----
(***************************************************************************)
(* A model of svitlo: a monitor of a Deye solar installation's grid state  *)
(* (deye.go), of the DTEK outage schedule (dtek.go), and of the Telegram   *)
(* notifications and commands built on them (main.go, telegram.go).        *)
(*                                                                         *)
(* The specifications share the variables:                                 *)
(*   Spec      the polling loop of main.go, one action per handler         *)
(*             (checkAndNotify with everything it calls);                  *)
(*   SpecDeye  DeyeClient's token and doRequest, statement by statement,   *)
(*             for the goroutines that share the client;                   *)
(*   SpecDtek  DtekClient.GetShutdown, statement by statement, for the     *)
(*             goroutines that share the client;                           *)
(*   SpecCache SpecDtek with DtekClient.ClearCache called at any time;     *)
(*   SpecFetch DtekClient.FetchShutdowns, statement by statement;          *)
(*   SpecBot   the command loop of main.go with TelegramBot.GetUpdates     *)
(*             and the server it polls;                                    *)
(*   SpecBroadcast  TelegramBot.Broadcast, one delivery after another;     *)
(*   SpecPower GetPowerStatus on any telemetry;                            *)
(*   SpecStop  the two loops and main from the signal to the exit, with    *)
(*             the fairness the scheduling gives;                          *)
(*   SpecFlag  the two loops side by side, the grid coming and going.      *)
(* The clock counts minutes.                                               *)
(***************************************************************************)
EXTENDS Integers, Sequences, FiniteSets, TLC

VARIABLES
    now,            \* time.Now(), in minutes since the process started
    ticks,          \* how many times the clock has advanced (bounds the run)
    \* ---- main.go: runDeyePoller
    pollerPc,       \* "first" (line 152), "select" (line 155), "exited"
    lastHasGrid,    \* *bool of line 112: <<>> is nil, <<b>> points at b
    tickPending,    \* a tick is waiting in ticker.C (capacity 1)
    tickerPeriod,   \* the ticker's period, minutes
    cancelled,      \* ctx is done
    poll,           \* history: the latest run of checkAndNotify (Nil before it)
    prevFlag,       \* history: HasGrid of the latest successful poll before it
    statusSent,     \* history: initial-status broadcasts so far
    \* ---- dtek.go: DtekClient
    dmu,            \* owner of DtekClient.mu, or NoOwner
    cachedAt, cachedValue, cacheHit,
    dpc,            \* per goroutine: position in GetShutdown
    dcall,          \* per goroutine: history of its current GetShutdown call
    lastFetch,      \* history: the latest successful FetchShutdowns
    \* ---- deye.go: DeyeClient
    mu,             \* owner of DeyeClient.mu, or NoOwner
    accessToken,    \* a string, as a sequence of words; <<>> is ""
    expiresAt,
    pc,             \* per goroutine: position in doRequest / Authenticate
    call,           \* per goroutine: locals and history of its current call
    \* ---- dtek.go: FetchShutdowns
    fpc,            \* position in FetchShutdowns
    browser,        \* the browser process: "none", "running", "connected", "closed"
    flocal,         \* locals and history of the current FetchShutdowns call
    \* ---- telegram.go: TelegramBot, and runTelegramPoller of main.go
    offset,         \* TelegramBot.offset
    cmdPc,          \* position in runTelegramPoller
    batch,          \* `updates` of line 172, as GetUpdates returned them
    idx,            \* index of the update the range loop of line 179 is at
    pending,        \* the server: its unconfirmed updates, by identifier
    nextId,         \* the server: the identifier of its next update
    handed,         \* history: how often each update was returned by GetUpdates
    handled,        \* history: what the loop did with the update it handled last
    bcast,          \* Broadcast: its text, its position, and its attempts
    terminated,     \* main has returned from wg.Wait()
    \* ---- deye.go: GetPowerStatus on its own
    sample          \* history: the telemetry last given to it and its result

monVars  == <<pollerPc, lastHasGrid, tickPending, tickerPeriod, cancelled, poll, prevFlag, statusSent>>
dtekVars == <<dmu, cachedAt, cachedValue, cacheHit, dpc, dcall, lastFetch>>
deyeVars == <<mu, accessToken, expiresAt, pc, call>>
fetchVars == <<fpc, browser, flocal>>
botVars  == <<offset, cmdPc, batch, idx, pending, nextId, handed, handled, bcast, terminated>>
vars     == <<now, ticks, monVars, dtekVars, deyeVars, fetchVars, botVars, sample>>

(***************************************************************************)
(* Bounds of the model and constants of the program.                       *)
(***************************************************************************)
MaxTicks == 3           \* clock advances in one run
MaxDepth == 2           \* nested doRequest calls (401 retries) in one call
MaxUpdates == 2         \* updates the server receives in one run

dtekCacheTTL  == 10     \* 10 * time.Minute
TokenValidity == 84960  \* 59 * 24 * time.Hour, in minutes
PollIntervalSec == 60   \* LoadConfig's default

\* How long the clock may advance in one step: a minute, or just under the
\* cache's TTL (for the token's validity see DeyeDurations)
Durations == {1, dtekCacheTTL - 1}

Nil      == <<>>
Some(v)  == <<v>>
NoOwner  == "nobody"
Loops    == {"mon", "cmd"}      \* the goroutines of main.go lines 86 and 93

(***************************************************************************)
(* deye.go: what GetPowerStatus makes of the two doRequest results.        *)
(***************************************************************************)
\* the errors doRequest returns (lines 147, 169, 175, 184, 190)
DoRequestErrs == {"get token", "request failed", "read response",
                  "re-auth failed", "unmarshal response"}

OptPower == {Nil, Some(0), Some(150)}

\* doRequest("/v1.0/station/latest"): an error, or a decoded response
StationResults ==
    [err : DoRequestErrs, success : {FALSE}, gridPower : {Nil}, purchasePower : {Nil}]
    \cup [err : {""}, success : {FALSE}, gridPower : {Nil}, purchasePower : {Nil}]
    \cup [err : {""}, success : {TRUE}, gridPower : OptPower, purchasePower : OptPower]

\* doRequest("/v1.0/device/latest"): an error, or a decoded response
DeviceResults ==
    [err : DoRequestErrs, success : {FALSE}, deviceList : {<<>>}]
    \cup [err : {""}, success : {FALSE}, deviceList : {<<>>}]
    \cup [err : {""}, success : {TRUE}, deviceList : {<<>>, <<1>>}]

ptrVal(p) == IF p = Nil THEN 0 ELSE p[1]

GetStationLatestIgnoringSuccess(r) ==
    IF r.err # "" THEN [err |-> r.err, resp |-> r] ELSE [err |-> "", resp |-> r]

GetStationLatest(r) ==
    IF r.err # "" THEN [err |-> r.err, resp |-> r]
    ELSE IF ~r.success THEN [err |-> "station/latest failed", resp |-> r]
    ELSE [err |-> "", resp |-> r]

GetDeviceLatest(r) ==
    IF r.err # "" THEN [err |-> r.err, resp |-> r]
    ELSE IF ~r.success THEN [err |-> "device/latest failed", resp |-> r]
    ELSE [err |-> "", resp |-> r]

HasGridFromGridPowerAlone(station) == ptrVal(station.gridPower) > 0

HasGrid(station) ==
    IF station.gridPower # Nil \/ station.purchasePower # Nil
    THEN ptrVal(station.gridPower) > 0 \/ ptrVal(station.purchasePower) > 0
    ELSE FALSE

NoStatus == [HasGrid |-> FALSE, DeviceOnline |-> FALSE, DeviceState |-> 0]

GetPowerStatus(st, dv) ==
    LET station == GetStationLatest(st)
        device  == GetDeviceLatest(dv)
    IN  IF station.err # "" THEN [err |-> "get station", status |-> NoStatus]
        ELSE IF device.err # "" THEN [err |-> "get device", status |-> NoStatus]
        ELSE [err |-> "",
              status |-> [HasGrid |-> HasGrid(station.resp),
                          DeviceOnline |-> Len(dv.deviceList) > 0 /\ dv.deviceList[1] = 1,
                          DeviceState |-> IF Len(dv.deviceList) > 0
                                          THEN dv.deviceList[1] ELSE 0]]

(***************************************************************************)
(* dtek.go: FetchShutdowns and the cache of GetShutdown.                   *)
(***************************************************************************)
\* the outage records the schedule may hold for the house
Shutdowns == {[StartDate |-> "10:00", EndDate |-> "14:00"],
              [StartDate |-> "18:00", EndDate |-> "22:00"]}

\* where one run of FetchShutdowns ends: at one of its error returns, or
\* with the house absent from the data, or with the house's record
FetchFailures == {"chromium not found", "launcher", "browser connect", "navigate",
                  "get cookies", "csrf element", "csrf attribute",
                  "request", "read", "parse response", "result=false"}
FetchRuns == [end : FetchFailures, data : {Nil}]
             \cup [end : {"done"}, data : {Nil} \cup {Some(s) : s \in Shutdowns}]

\* the runs of FetchShutdowns the polling loop is checked with
PollFetchRuns == {run \in FetchRuns : run.end \in {"navigate", "result=false", "done"}}

FetchShutdowns(run) ==
    IF run.end \in FetchFailures
    THEN [err |-> run.end, shutdown |-> Nil]
    ELSE [err |-> "", shutdown |-> run.data]

\* line 489: the cached value is served
CacheServedWithoutTTL(hit, at, t) == hit
CacheServed(hit, at, t) == hit /\ t - at < dtekCacheTTL

\* lines 493-501: the cache after FetchShutdowns returned f at time t
CacheStoringFailures(c, f, t) ==
    [cachedAt |-> t, cachedValue |-> f.shutdown, cacheHit |-> TRUE]
CacheAfterFetch(c, f, t) ==
    IF f.err # "" THEN c
    ELSE [cachedAt |-> t, cachedValue |-> f.shutdown, cacheHit |-> TRUE]

TheCache == [cachedAt |-> cachedAt, cachedValue |-> cachedValue, cacheHit |-> cacheHit]

\* GetShutdown run by one goroutine alone: what it returns and the cache it
\* leaves, FetchShutdowns ending as `run` says if it is called at all
GetShutdown(run) ==
    IF CacheServed(cacheHit, cachedAt, now)
    THEN [err |-> "", shutdown |-> cachedValue, fetched |-> FALSE, cache |-> TheCache]
    ELSE LET f == FetchShutdowns(run)
         IN  [err |-> f.err,
              shutdown |-> IF f.err # "" THEN Nil ELSE f.shutdown,
              fetched |-> TRUE,
              cache |-> CacheAfterFetch(TheCache, f, now)]

ShutdownLineHidingErrors(g) ==
    IF g.shutdown = Nil THEN "DTEK: none"
    ELSE "DTEK: window"

ShutdownLine(g) ==
    IF g.err # "" THEN "DTEK: error"
    ELSE IF g.shutdown = Nil THEN "DTEK: none"
    ELSE "DTEK: window"

(***************************************************************************)
(* main.go: the messages and checkAndNotify.                               *)
(***************************************************************************)
formatStatusMessage(s, line)   == [kind |-> "status", hasGrid |-> s.HasGrid, line |-> line]
formatPowerOnMessage(s, line)  == [kind |-> "power on", hasGrid |-> s.HasGrid, line |-> line]
formatPowerOffMessage(s, line) == [kind |-> "power off", hasGrid |-> s.HasGrid, line |-> line]

\* what checkAndNotify decides from GetPowerStatus's result r and lastHasGrid:
\* the new lastHasGrid and the kind of message to broadcast ("" for none)
DecideNotStoring(r, last) ==
    IF r.err # "" THEN [last |-> last, kind |-> ""]
    ELSE IF last = Nil THEN [last |-> Some(r.status.HasGrid), kind |-> "status"]
    ELSE IF r.status.HasGrid # last[1]
         THEN [last |-> last,
               kind |-> IF r.status.HasGrid THEN "power on" ELSE "power off"]
    ELSE [last |-> last, kind |-> ""]

DecideStoringOnFailure(r, last) ==
    IF r.err # "" THEN [last |-> Some(r.status.HasGrid), kind |-> ""]
    ELSE IF last = Nil THEN [last |-> Some(r.status.HasGrid), kind |-> "status"]
    ELSE IF r.status.HasGrid # last[1]
         THEN [last |-> Some(r.status.HasGrid),
               kind |-> IF r.status.HasGrid THEN "power on" ELSE "power off"]
    ELSE [last |-> last, kind |-> ""]

DecideStatusOnChange(r, last) ==
    IF r.err # "" THEN [last |-> last, kind |-> ""]
    ELSE IF last = Nil THEN [last |-> Some(r.status.HasGrid), kind |-> "status"]
    ELSE IF r.status.HasGrid # last[1]
         THEN [last |-> Some(r.status.HasGrid), kind |-> "status"]
    ELSE [last |-> last, kind |-> ""]

Decide(r, last) ==
    IF r.err # "" THEN [last |-> last, kind |-> ""]
    ELSE IF last = Nil THEN [last |-> Some(r.status.HasGrid), kind |-> "status"]
    ELSE IF r.status.HasGrid # last[1]
         THEN [last |-> Some(r.status.HasGrid),
               kind |-> IF r.status.HasGrid THEN "power on" ELSE "power off"]
    ELSE [last |-> last, kind |-> ""]

MessageAlwaysPowerOn(kind, s, line) ==
    IF kind = "status" THEN formatStatusMessage(s, line)
    ELSE formatPowerOnMessage(s, line)

Message(kind, s, line) ==
    IF kind = "status" THEN formatStatusMessage(s, line)
    ELSE IF kind = "power on" THEN formatPowerOnMessage(s, line)
    ELSE formatPowerOffMessage(s, line)

\* history: did the poll fail, judged from what the API answered
PollFailed(st, dv) == st.err # "" \/ ~st.success \/ dv.err # "" \/ ~dv.success

\* one run of checkAndNotify: GetPowerStatus on the two API results, and when
\* a message is due, ShutdownLine (GetShutdown, with its cache) and Broadcast
checkAndNotify(st, dv) ==
    LET r == GetPowerStatus(st, dv)
        d == Decide(r, lastHasGrid)
        h == [n |-> IF poll = Nil THEN 1 ELSE poll[1].n + 1,
              failed |-> PollFailed(st, dv),
              prevFailed |-> poll # Nil /\ poll[1].failed,
              flag |-> r.status.HasGrid,
              before |-> lastHasGrid,
              prevNote |-> IF poll = Nil THEN Nil
                           ELSE IF poll[1].sent # <<>>
                                THEN Some([kind |-> poll[1].sent[1].kind,
                                           hasGrid |-> poll[1].sent[1].hasGrid])
                                ELSE poll[1].prevNote,
              sent |-> <<>>,
              dtekErr |-> FALSE]
    IN  /\ lastHasGrid' = d.last
        /\ prevFlag' = IF poll # Nil /\ ~poll[1].failed THEN Some(poll[1].flag) ELSE prevFlag
        /\ IF d.kind = ""
           THEN /\ poll' = Some([h EXCEPT !.sent = <<>>, !.dtekErr = FALSE])
                /\ UNCHANGED <<statusSent, cachedAt, cachedValue, cacheHit>>
           ELSE \E run \in PollFetchRuns :
                  LET g == GetShutdown(run)
                      msg == Message(d.kind, r.status, ShutdownLine(g))
                  IN  /\ cachedAt' = g.cache.cachedAt
                      /\ cachedValue' = g.cache.cachedValue
                      /\ cacheHit' = g.cache.cacheHit
                      /\ poll' = Some([h EXCEPT !.sent = <<msg>>, !.dtekErr = g.err # ""])
                      /\ statusSent' = IF msg.kind = "status" THEN statusSent + 1
                                       ELSE statusSent

\* line 152: the first check, at once, the API answering from S and D
FirstCheck(S, D) ==
    /\ pollerPc = "first"
    /\ \E st \in S, dv \in D : checkAndNotify(st, dv)
    /\ pollerPc' = "select"
    /\ UNCHANGED <<fetchVars, botVars, sample, now, ticks, tickPending, tickerPeriod, cancelled,
                   dmu, dpc, dcall, lastFetch, deyeVars>>

\* lines 158-159: a tick is received, the API answering from S and D
TickCheck(S, D) ==
    /\ pollerPc = "select"
    /\ tickPending
    /\ tickPending' = FALSE
    /\ \E st \in S, dv \in D : checkAndNotify(st, dv)
    /\ pollerPc' = "select"
    /\ UNCHANGED <<fetchVars, botVars, sample, now, ticks, tickerPeriod, cancelled,
                   dmu, dpc, dcall, lastFetch, deyeVars>>

\* lines 156-157: ctx.Done() is received
PollerExit ==
    /\ pollerPc = "select"
    /\ cancelled
    /\ pollerPc' = "exited"
    /\ UNCHANGED <<fetchVars, botVars, sample, now, ticks, lastHasGrid, tickPending, tickerPeriod, cancelled,
                   poll, prevFlag, statusSent, dtekVars, deyeVars>>

\* lines 101-103: main receives a signal and cancels the context
Cancel ==
    /\ ~cancelled
    /\ cancelled' = TRUE
    /\ UNCHANGED <<fetchVars, botVars, sample, now, ticks, pollerPc, lastHasGrid, tickPending, tickerPeriod,
                   poll, prevFlag, statusSent, dtekVars, deyeVars>>

(***************************************************************************)
(* deye.go, statement by statement: Authenticate, getToken and doRequest   *)
(* run by main (line 47 of main.go) and then by the two loops.             *)
(*                                                                         *)
(* pc[p]: "start"     main, before line 47                                 *)
(*        "started"   main, authenticated, before line 79                  *)
(*        "signal"    main, waiting for the signal, the loops running      *)
(*        "fatal"     main, after log.Fatalf                               *)
(*        "unborn"    a loop main has not started                          *)
(*        "idle"      not in a DeyeClient call                             *)
(*        "getToken"  doRequest line 145, getToken before line 128         *)
(*        "authLock"  Authenticate before line 65                          *)
(*        "authExch"  Authenticate at line 89, holding mu                  *)
(*        "reread"    getToken before line 137                             *)
(*        "send"      doRequest before line 167                            *)
(*        "resp"      doRequest at line 167, the request sent              *)
(***************************************************************************)
DeyeProcs == {"main"} \cup Loops

\* what the token endpoint may send as accessToken, as words
RawTokens == {<<"a">>, <<"Bearer", "a">>}

\* how an authentication exchange ends: with a token, or at one of the
\* error returns of lines 91, 97, 104, 108
AuthFailures == {"token request failed", "read token response",
                 "unmarshal token response", "deye auth failed"}
AuthReplies == [err : AuthFailures, token : {<<>>}] \cup [err : {""}, token : RawTokens]

\* how a telemetry exchange ends: at the error returns of lines 169, 175,
\* 190, with status 401, or with a body that decodes
Replies == {"request failed", "read response", "401", "unmarshal response", "ok"}

\* lines 112-115
WithBearer(token) ==
    IF Len(token) > 0 /\ token[1] = "Bearer" THEN token ELSE <<"Bearer">> \o token

\* lines 116-118: the token and its expiry after a successful exchange
AuthenticatedKeepingExpiry(reply, t) ==
    [accessToken |-> WithBearer(reply.token), expiresAt |-> expiresAt]

Authenticated(reply, t) ==
    [accessToken |-> WithBearer(reply.token), expiresAt |-> t + TokenValidity]

\* line 130 and line 133: getToken must authenticate
NeedsTokenIgnoringExpiry(token, exp, t) == token = <<>>
NeedsToken(token, exp, t) == token = <<>> \/ t > exp

\* where Authenticate's caller goes on: main (line 47), getToken (lines
\* 134-139), doRequest after a 401 (lines 183-186)
AfterAuthIgnoringFailure(why, failed) ==
    IF why = "main" THEN [pc |-> IF failed THEN "fatal" ELSE "started", result |-> ""]
    ELSE IF why = "getToken" THEN [pc |-> "reread", result |-> ""]
    ELSE [pc |-> "getToken", result |-> ""]

AfterAuth(why, failed) ==
    IF why = "main"
    THEN [pc |-> IF failed THEN "fatal" ELSE "started", result |-> ""]
    ELSE IF why = "getToken"
    THEN IF failed THEN [pc |-> "idle", result |-> "get token"]
                   ELSE [pc |-> "reread", result |-> ""]
    ELSE IF failed THEN [pc |-> "idle", result |-> "re-auth failed"]
                   ELSE [pc |-> "getToken", result |-> ""]

\* the locals of a goroutine outside doRequest, and the history of its
\* latest call: token, why, depth are the locals; the rest is history
NoCall ==
    [token |-> <<>>,        \* the local `token`
     why |-> "",            \* who called Authenticate
     depth |-> 0,           \* nested doRequest calls (line 186) so far
     result |-> "",         \* what the call returned ("" while it runs)
     checkedAt |-> 0,       \* when getToken examined the token
     stale |-> FALSE,       \* the token was missing or expired then
     tokExp |-> 0,          \* the expiry instant of the local token
     fresh |-> FALSE,       \* the local token was obtained after the check
     sent |-> FALSE,        \* a request was sent in this call
     sentExpired |-> FALSE, \* the latest request was sent past tokExp
     needed |-> TRUE,       \* the token was missing or expired when the
                            \* current authentication request was sent
     authFailed |-> FALSE,  \* an authentication of this call failed
     afterFail |-> FALSE]   \* a request or an authentication followed it

\* the call has returned: its locals are gone
Returned(c, result) ==
    [NoCall EXCEPT !.result = result, !.sent = c.sent,
                   !.authFailed = c.authFailed, !.afterFail = c.afterFail]

\* main.go line 47: main authenticates before anything else
MainAuthenticate ==
    /\ pc["main"] = "start"
    /\ pc' = [pc EXCEPT !["main"] = "authLock"]
    /\ call' = [call EXCEPT !["main"] = [NoCall EXCEPT !.why = "main"]]
    /\ UNCHANGED <<fetchVars, botVars, sample, now, ticks, monVars, dtekVars, mu, accessToken, expiresAt>>

\* main.go lines 53-96, the station and the device being configured: main
\* starts the two loops and waits for the signal
StartLoops ==
    /\ pc["main"] = "started"
    /\ pc' = [p \in DeyeProcs |-> IF p = "main" THEN "signal" ELSE "idle"]
    /\ call' = [call EXCEPT !["main"] = NoCall]
    /\ UNCHANGED <<fetchVars, botVars, sample, now, ticks, monVars, dtekVars, mu, accessToken, expiresAt>>

\* a loop calls doRequest (GetPowerStatus: GetStationLatest, GetDeviceLatest)
BeginCall(p) ==
    /\ pc[p] = "idle"
    /\ pc' = [pc EXCEPT ![p] = "getToken"]
    /\ call' = [call EXCEPT ![p] = NoCall]
    /\ UNCHANGED <<fetchVars, botVars, sample, now, ticks, monVars, dtekVars, mu, accessToken, expiresAt>>

\* getToken lines 128-133: under mu, read the token and whether it expired
GetTokenCheck(p) ==
    /\ pc[p] = "getToken"
    /\ mu = NoOwner
    /\ LET needs == NeedsToken(accessToken, expiresAt, now)
       IN  /\ pc' = [pc EXCEPT ![p] = IF needs THEN "authLock" ELSE "send"]
           /\ call' = [call EXCEPT ![p].token = accessToken,
                                   ![p].why = IF needs THEN "getToken" ELSE "",
                                   ![p].checkedAt = now,
                                   ![p].stale = (accessToken = <<>> \/ now > expiresAt),
                                   ![p].fresh = FALSE,
                                   ![p].tokExp = expiresAt]
    /\ UNCHANGED <<fetchVars, botVars, sample, now, ticks, monVars, dtekVars, mu, accessToken, expiresAt>>

\* Authenticate lines 65-89: take mu and send the token request
AuthLock(p) ==
    /\ pc[p] = "authLock"
    /\ mu = NoOwner
    /\ mu' = p
    /\ pc' = [pc EXCEPT ![p] = "authExch"]
    /\ call' = [call EXCEPT ![p].needed = (accessToken = <<>> \/ now > expiresAt),
                            ![p].afterFail = @ \/ call[p].authFailed]
    /\ UNCHANGED <<fetchVars, botVars, sample, now, ticks, monVars, dtekVars, accessToken, expiresAt>>

\* Authenticate lines 89-124: the exchange ends; mu is released on return,
\* and the caller goes on as AfterAuth says
AuthReply(p) ==
    /\ pc[p] = "authExch"
    /\ mu = p
    /\ \E reply \in AuthReplies :
         LET failed == reply.err # ""
             go == AfterAuth(call[p].why, failed)
             c == [call[p] EXCEPT !.authFailed = @ \/ failed, !.needed = TRUE]
         IN  /\ IF failed
                THEN UNCHANGED <<accessToken, expiresAt>>
                ELSE /\ accessToken' = Authenticated(reply, now).accessToken
                     /\ expiresAt' = Authenticated(reply, now).expiresAt
             /\ pc' = [pc EXCEPT ![p] = go.pc]
             /\ call' = [call EXCEPT ![p] =
                           IF go.pc \in {"idle", "fatal"} THEN Returned(c, go.result)
                           ELSE IF go.pc = "getToken" THEN [c EXCEPT !.depth = @ + 1]
                           ELSE c]
    /\ mu' = NoOwner
    /\ UNCHANGED <<fetchVars, botVars, sample, now, ticks, monVars, dtekVars>>

\* getToken lines 137-139: under mu, read the token Authenticate stored
Reread(p) ==
    /\ pc[p] = "reread"
    /\ mu = NoOwner
    /\ pc' = [pc EXCEPT ![p] = "send"]
    /\ call' = [call EXCEPT ![p].token = accessToken,
                            ![p].tokExp = expiresAt,
                            ![p].fresh = (accessToken # <<>>
                                          /\ expiresAt - TokenValidity >= call[p].checkedAt)]
    /\ UNCHANGED <<fetchVars, botVars, sample, now, ticks, monVars, dtekVars, mu, accessToken, expiresAt>>

\* doRequest lines 150-167: the request is sent, carrying the local token
Send(p) ==
    /\ pc[p] = "send"
    /\ pc' = [pc EXCEPT ![p] = "resp"]
    /\ call' = [call EXCEPT ![p].sent = TRUE,
                            ![p].sentExpired = now > call[p].tokExp,
                            ![p].afterFail = @ \/ call[p].authFailed]
    /\ UNCHANGED <<fetchVars, botVars, sample, now, ticks, monVars, dtekVars, mu, accessToken, expiresAt>>

\* doRequest lines 167-193: the exchange ends. On 401 doRequest authenticates
\* again and then calls itself (line 186); the model follows at most
\* MaxDepth such nested calls.
Reply(p) ==
    /\ pc[p] = "resp"
    /\ \E r \in Replies :
         IF r = "401"
         THEN /\ call[p].depth < MaxDepth
              /\ pc' = [pc EXCEPT ![p] = "authLock"]
              /\ call' = [call EXCEPT ![p].why = "reauth"]
         ELSE /\ pc' = [pc EXCEPT ![p] = "idle"]
              /\ call' = [call EXCEPT ![p] = Returned(call[p], r)]
    /\ UNCHANGED <<fetchVars, botVars, sample, now, ticks, monVars, dtekVars, mu, accessToken, expiresAt>>

(***************************************************************************)
(* dtek.go, statement by statement: GetShutdown called by the two loops    *)
(* (by ShutdownLine, for a broadcast and for a /status reply).             *)
(*                                                                         *)
(* dpc[p]: "idle"   not in GetShutdown                                     *)
(*         "lock"   GetShutdown before line 486, waiting for mu            *)
(*         "fetch"  GetShutdown at line 493, FetchShutdowns running        *)
(* ClearCache (lines 478-483) has no caller in the program and is not      *)
(* among the actions of SpecDtek; SpecCache is SpecDtek with ClearCache    *)
(* called at any time.                                                     *)
(***************************************************************************)
\* the history of a GetShutdown call not yet made
NoDtekCall ==
    [checked |-> FALSE,     \* line 489 has been evaluated
     checkedAt |-> 0,       \* when
     snap |-> Nil,          \* the latest successful fetch as of then
     fetches |-> 0,         \* FetchShutdowns calls made by this call
     fetchFailed |-> FALSE, \* its FetchShutdowns returned an error
     waited |-> FALSE,      \* another caller's fetch succeeded while this
                            \* one waited for mu
     result |-> Nil]        \* what the call returned: Some([err, shutdown])

\* line 487: mu stays with the caller while FetchShutdowns runs
ReleasedDuringFetch(p) == NoOwner
HeldDuringFetch(p) == p

\* ShutdownLine line 505: GetShutdown is called
CallGetShutdown(p) ==
    /\ dpc[p] = "idle"
    /\ dpc' = [dpc EXCEPT ![p] = "lock"]
    /\ dcall' = [dcall EXCEPT ![p] = NoDtekCall]
    /\ UNCHANGED <<fetchVars, botVars, sample, now, ticks, monVars, deyeVars, dmu, cachedAt, cachedValue, cacheHit,
                   lastFetch>>

\* lines 486-493: mu is taken; the cached value is returned (and mu
\* released), or FetchShutdowns is called
LockAndCheck(p) ==
    /\ dpc[p] = "lock"
    /\ dmu = NoOwner
    /\ LET h == [dcall[p] EXCEPT !.checked = TRUE, !.checkedAt = now, !.snap = lastFetch]
       IN  IF CacheServed(cacheHit, cachedAt, now)
           THEN /\ dpc' = [dpc EXCEPT ![p] = "idle"]
                /\ dcall' = [dcall EXCEPT ![p] =
                               [h EXCEPT !.result = Some([err |-> "", shutdown |-> cachedValue])]]
                /\ UNCHANGED dmu
           ELSE /\ dpc' = [dpc EXCEPT ![p] = "fetch"]
                /\ dcall' = [dcall EXCEPT ![p] = [h EXCEPT !.fetches = @ + 1]]
                /\ dmu' = HeldDuringFetch(p)
    /\ UNCHANGED <<fetchVars, botVars, sample, now, ticks, monVars, deyeVars, cachedAt, cachedValue, cacheHit, lastFetch>>

\* lines 493-501: FetchShutdowns returns; on success the cache is stored;
\* mu is released on return
FetchReturn(p) ==
    /\ dpc[p] = "fetch"
    /\ \E run \in FetchRuns :
         LET f == FetchShutdowns(run)
             c == CacheAfterFetch(TheCache, f, now)
             done == run.end = "done"
         IN  /\ cachedAt' = c.cachedAt
             /\ cachedValue' = c.cachedValue
             /\ cacheHit' = c.cacheHit
             /\ lastFetch' = IF done THEN Some([at |-> now, value |-> run.data])
                             ELSE lastFetch
             /\ dcall' = [q \in Loops |->
                            IF q = p
                            THEN [dcall[p] EXCEPT
                                    !.fetchFailed = ~done,
                                    !.result = Some([err |-> f.err,
                                                     shutdown |-> IF f.err # "" THEN Nil
                                                                  ELSE f.shutdown])]
                            ELSE [dcall[q] EXCEPT
                                    !.waited = @ \/ (done /\ dpc[q] = "lock")]]
    /\ dpc' = [dpc EXCEPT ![p] = "idle"]
    /\ dmu' = IF dmu = p THEN NoOwner ELSE dmu
    /\ UNCHANGED <<fetchVars, botVars, sample, now, ticks, monVars, deyeVars>>

\* lines 478-483: ClearCache, by whoever holds the client, under mu
ClearCacheDroppingValue ==
    /\ dmu = NoOwner
    /\ cacheHit' = FALSE
    /\ cachedValue' = Nil
    /\ UNCHANGED <<fetchVars, botVars, sample, now, ticks, monVars, deyeVars,
                   dmu, cachedAt, dpc, dcall, lastFetch>>

ClearCache ==
    /\ dmu = NoOwner
    /\ cacheHit' = FALSE
    /\ UNCHANGED <<fetchVars, botVars, sample, now, ticks, monVars, deyeVars,
                   dmu, cachedAt, cachedValue, dpc, dcall, lastFetch>>

(***************************************************************************)
(* dtek.go, statement by statement: one FetchShutdowns call after another  *)
(* (GetShutdown lets only one run at a time).                              *)
(*                                                                         *)
(* fpc: "idle"      not in FetchShutdowns                                  *)
(*      "launch"    before line 372, the browser binary found              *)
(*      "connect"   before line 382, the browser process launched          *)
(*      "navigate"  before line 387, connected, MustClose deferred         *)
(*      "cookies"   before line 397, the page loaded                       *)
(*      "csrfEl"    before line 403                                        *)
(*      "csrfAttr"  before line 407                                        *)
(*      "request"   before line 444, the request built                     *)
(*      "read"      before line 450, the response headers received         *)
(*      "parse"     before line 458, the body read                         *)
(***************************************************************************)
House  == "63"                  \* main.go line 44
Houses == {"63", "65"}          \* the keys the schedule may hold

\* what page.Cookies may yield for the origin, and the content of the meta tag
CookieLists == {<<>>, <<"sid">>}
CsrfTokens  == {"", "tok"}

\* the bodies the schedule endpoint may answer with: one that does not
\* parse, or a DtekResponse
DataMaps == UNION {[S -> Shutdowns] : S \in SUBSET Houses}
Bodies == [parsed : {FALSE}, result : {FALSE}, data : {<<>>}]
          \cup [parsed : {TRUE}, result : BOOLEAN, data : DataMaps]

\* lines 463-473: what a parsed response makes FetchShutdowns return
ParsedResultIgnoringFlag(resp, house) ==
    [end |-> "done",
     data |-> IF house \in DOMAIN resp.data THEN Some(resp.data[house]) ELSE Nil]

ParsedResult(resp, house) ==
    IF ~resp.result THEN [end |-> "result=false", data |-> Nil]
    ELSE [end |-> "done",
          data |-> IF house \in DOMAIN resp.data THEN Some(resp.data[house]) ELSE Nil]

\* the locals of FetchShutdowns before it starts, and the history of the call
NoFetch ==
    [launched |-> FALSE,    \* history: launcher.Launch started the browser
     deferred |-> FALSE,    \* browser.MustClose is deferred (line 391)
     cookies |-> Nil,       \* `cookies`: Some(list) once page.Cookies returned
     csrf |-> Nil,          \* `csrfToken`: Some(content) once read
     requests |-> 0,        \* history: requests sent to the schedule endpoint
     resp |-> Nil,          \* `body`, once read
     result |-> Nil]        \* history: what the call returned

Failure(e) == [end |-> e, data |-> Nil]

\* FetchShutdowns returns as `run` says; the deferred MustClose runs if it
\* was registered
ReturnFrom(l, run) ==
    /\ fpc' = "idle"
    /\ flocal' = [l EXCEPT !.result = Some(FetchShutdowns(run))]
    /\ browser' = IF l.deferred THEN "closed" ELSE browser

\* lines 366-370: lookupBrowser
FetchStart ==
    /\ fpc = "idle"
    /\ \E found \in BOOLEAN :
         IF found
         THEN fpc' = "launch" /\ flocal' = NoFetch /\ UNCHANGED browser
         ELSE ReturnFrom(NoFetch, Failure("chromium not found"))
    /\ UNCHANGED <<now, ticks, monVars, dtekVars, deyeVars, botVars, sample>>

\* lines 372-380: launcher.Launch starts the browser process
Launch ==
    /\ fpc = "launch"
    /\ \E ok \in BOOLEAN :
         IF ok
         THEN /\ fpc' = "connect"
              /\ browser' = "running"
              /\ flocal' = [flocal EXCEPT !.launched = TRUE]
         ELSE ReturnFrom(flocal, Failure("launcher"))
    /\ UNCHANGED <<now, ticks, monVars, dtekVars, deyeVars, botVars, sample>>

\* lines 382-391: browser.Connect, and on success the deferred MustClose
Connect ==
    /\ fpc = "connect"
    /\ \E ok \in BOOLEAN :
         IF ok
         THEN /\ fpc' = "navigate"
              /\ browser' = "connected"
              /\ flocal' = [flocal EXCEPT !.deferred = TRUE]
         ELSE ReturnFrom(flocal, Failure("browser connect"))
    /\ UNCHANGED <<now, ticks, monVars, dtekVars, deyeVars, botVars, sample>>

\* lines 387-394: browser.Page, WaitLoad and the sleep
Navigate ==
    /\ fpc = "navigate"
    /\ \E ok \in BOOLEAN :
         IF ok
         THEN fpc' = "cookies" /\ UNCHANGED <<browser, flocal>>
         ELSE ReturnFrom(flocal, Failure("navigate"))
    /\ UNCHANGED <<now, ticks, monVars, dtekVars, deyeVars, botVars, sample>>

\* lines 397-400: page.Cookies
GetCookies ==
    /\ fpc = "cookies"
    /\ \/ ReturnFrom(flocal, Failure("get cookies"))
       \/ \E c \in CookieLists :
            /\ fpc' = "csrfEl"
            /\ flocal' = [flocal EXCEPT !.cookies = Some(c)]
            /\ UNCHANGED browser
    /\ UNCHANGED <<now, ticks, monVars, dtekVars, deyeVars, botVars, sample>>

\* lines 403-406: page.Element
CsrfElement ==
    /\ fpc = "csrfEl"
    /\ \E ok \in BOOLEAN :
         IF ok
         THEN fpc' = "csrfAttr" /\ UNCHANGED <<browser, flocal>>
         ELSE ReturnFrom(flocal, Failure("csrf element"))
    /\ UNCHANGED <<now, ticks, monVars, dtekVars, deyeVars, botVars, sample>>

\* lines 407-442: csrfEl.Attribute; with the token the request is built
CsrfAttribute ==
    /\ fpc = "csrfAttr"
    /\ \/ ReturnFrom(flocal, Failure("csrf attribute"))
       \/ \E t \in CsrfTokens :
            /\ fpc' = "request"
            /\ flocal' = [flocal EXCEPT !.csrf = Some(t)]
            /\ UNCHANGED browser
    /\ UNCHANGED <<now, ticks, monVars, dtekVars, deyeVars, botVars, sample>>

\* lines 444-448: http.DefaultClient.Do sends the request
SendRequest ==
    /\ fpc = "request"
    /\ LET l == [flocal EXCEPT !.requests = @ + 1]
       IN  \E ok \in BOOLEAN :
             IF ok
             THEN fpc' = "read" /\ flocal' = l /\ UNCHANGED browser
             ELSE ReturnFrom(l, Failure("request"))
    /\ UNCHANGED <<now, ticks, monVars, dtekVars, deyeVars, botVars, sample>>

\* lines 450-453: io.ReadAll
ReadBody ==
    /\ fpc = "read"
    /\ \/ ReturnFrom(flocal, Failure("read"))
       \/ \E b \in Bodies :
            /\ fpc' = "parse"
            /\ flocal' = [flocal EXCEPT !.resp = Some(b)]
            /\ UNCHANGED browser
    /\ UNCHANGED <<now, ticks, monVars, dtekVars, deyeVars, botVars, sample>>

\* lines 457-473: json.Unmarshal, the result flag and the house's record
ParseResponse ==
    /\ fpc = "parse"
    /\ LET b == flocal.resp[1]
       IN  IF ~b.parsed
           THEN ReturnFrom(flocal, Failure("parse response"))
           ELSE ReturnFrom(flocal, ParsedResult(b, House))
    /\ UNCHANGED <<now, ticks, monVars, dtekVars, deyeVars, botVars, sample>>

(***************************************************************************)
(* telegram.go and runTelegramPoller of main.go, statement by statement,   *)
(* with the server the bot polls.                                          *)
(*                                                                         *)
(* cmdPc: "top"     at the select of line 166                              *)
(*        "poll"    in GetUpdates at line 129, the request sent            *)
(*        "sleep"   at line 175, GetUpdates having failed                  *)
(*        "handle"  in the range loop of line 179                          *)
(*        "exited"  returned (line 168)                                    *)
(***************************************************************************)
userIDs == <<101, 102, 103>>    \* TelegramBot.userIDs, the subscribers
Chats   == {101, 999}           \* the chats updates come from
Texts   == {"/status", "/start"}

FirstId == 5                    \* the identifier of the server's first update
UpdateIds == FirstId .. (FirstId + MaxUpdates - 1)

\* Update.Message: nil, or a message of a chat
Messages == {Nil} \cup {Some([chat |-> c, text |-> t]) : c \in Chats, t \in Texts}

\* the orders in which a response may list the updates of S
Orders(S) ==
    {q \in [1 .. Cardinality(S) -> S] : \A i, j \in DOMAIN q : i # j => q[i] # q[j]}

\* the identifiers of a batch, and the highest of them
Ids(b) == {b[i].id : i \in DOMAIN b}
Highest(b) == CHOOSE m \in Ids(b) : \A i \in Ids(b) : i <= m

\* lines 149-151: the offset after a response listing the updates b
OffsetAfter(b, o) == IF Len(b) > 0 THEN b[Len(b)].id + 1 ELSE o

\* the error returns of GetUpdates (lines 131, 137, 142, 146)
GetUpdatesFailures == {"getUpdates request", "read getUpdates response",
                       "unmarshal getUpdates response", "getUpdates failed"}

\* lines 156-163
IsAllowedUserAnyone(chatID) == TRUE
IsAllowedUser(chatID) == \E i \in DOMAIN userIDs : userIDs[i] = chatID

\* the texts of main.go lines 194 and 207
Greeting    == [kind |-> "greeting", hasGrid |-> FALSE, line |-> ""]
StatusError == [kind |-> "status error", hasGrid |-> FALSE, line |-> ""]

\* the server receives an update for the bot, its N-th at most: a message
\* of M, or an update without a message
Arrive(N, M) ==
    /\ nextId < FirstId + N
    /\ \E m \in M : pending' = pending \cup {[id |-> nextId, message |-> m]}
    /\ nextId' = nextId + 1
    /\ UNCHANGED <<now, ticks, monVars, dtekVars, deyeVars, fetchVars, sample,
                   offset, cmdPc, batch, idx, handed, handled, bcast, terminated>>

\* lines 166-168: the context is done, the loop returns
CmdExit ==
    /\ cmdPc = "top"
    /\ cancelled
    /\ cmdPc' = "exited"
    /\ UNCHANGED <<now, ticks, monVars, dtekVars, deyeVars, fetchVars, sample,
                   offset, batch, idx, pending, nextId, handed, handled, bcast, terminated>>

\* lines 169-172 and 118-129: GetUpdates sends its request; the server
\* forgets the updates below the offset it is given
CallGetUpdates ==
    /\ cmdPc = "top"
    /\ ~cancelled
    /\ cmdPc' = "poll"
    /\ pending' = {u \in pending : u.id >= offset}
    /\ UNCHANGED <<now, ticks, monVars, dtekVars, deyeVars, fetchVars, sample,
                   offset, batch, idx, nextId, handed, handled, bcast, terminated>>

\* lines 129-153 and 173-177: GetUpdates returns an error, or the updates the
\* server holds from the offset on, in the order the response lists them
GetUpdatesReturn ==
    /\ cmdPc = "poll"
    /\ \/ \E e \in GetUpdatesFailures :
            /\ cmdPc' = "sleep"
            /\ batch' = <<>>
            /\ UNCHANGED <<offset, handed>>
       \/ \E b \in Orders({u \in pending : u.id >= offset}) :
            /\ batch' = b
            /\ offset' = OffsetAfter(b, offset)
            /\ handed' = [i \in UpdateIds |-> IF i \in Ids(b) THEN handed[i] + 1
                                              ELSE handed[i]]
            /\ cmdPc' = IF Len(b) > 0 THEN "handle" ELSE "top"
    /\ idx' = 1
    /\ UNCHANGED <<now, ticks, monVars, dtekVars, deyeVars, fetchVars, sample,
                   pending, nextId, handled, bcast, terminated>>

\* line 175: the sleep ends
SleepDone ==
    /\ cmdPc = "sleep"
    /\ cmdPc' = "top"
    /\ UNCHANGED <<now, ticks, monVars, dtekVars, deyeVars, fetchVars, sample,
                   offset, batch, idx, pending, nextId, handed, handled, bcast, terminated>>

\* handleStatusCommand (lines 203-217): GetPowerStatus on the two API
\* results, then the error text or the status with ShutdownLine, sent to
\* the chat; the send may fail
handleStatusCommand(u, st, dv) ==
    LET r == GetPowerStatus(st, dv)
        chat == u.message[1].chat
    IN  IF r.err # ""
        THEN /\ \E ok \in BOOLEAN :
                  handled' = Some([update |-> u, fetched |-> TRUE,
                                   sent |-> <<[to |-> chat, text |-> StatusError, ok |-> ok]>>])
             /\ UNCHANGED <<cachedAt, cachedValue, cacheHit>>
        ELSE \E run \in PollFetchRuns, ok \in BOOLEAN :
               LET g == GetShutdown(run)
                   msg == formatStatusMessage(r.status, ShutdownLine(g))
               IN  /\ cachedAt' = g.cache.cachedAt
                   /\ cachedValue' = g.cache.cachedValue
                   /\ cacheHit' = g.cache.cacheHit
                   /\ handled' = Some([update |-> u, fetched |-> TRUE,
                                       sent |-> <<[to |-> chat, text |-> msg, ok |-> ok]>>])

\* lines 179-198: the range loop handles one update, the API answering a
\* /status from S and D
HandleUpdate(S, D) ==
    /\ cmdPc = "handle"
    /\ LET u == batch[idx]
           skipped == Some([update |-> u, fetched |-> FALSE, sent |-> <<>>])
       IN  IF u.message = Nil
           THEN handled' = skipped /\ UNCHANGED <<cachedAt, cachedValue, cacheHit>>
           ELSE IF ~IsAllowedUser(u.message[1].chat)
           THEN handled' = skipped /\ UNCHANGED <<cachedAt, cachedValue, cacheHit>>
           ELSE IF u.message[1].text = "/status"
           THEN \E st \in S, dv \in D : handleStatusCommand(u, st, dv)
           ELSE IF u.message[1].text = "/start"
           THEN /\ \E ok \in BOOLEAN :
                     handled' = Some([update |-> u, fetched |-> FALSE,
                                      sent |-> <<[to |-> u.message[1].chat,
                                                  text |-> Greeting, ok |-> ok]>>])
                /\ UNCHANGED <<cachedAt, cachedValue, cacheHit>>
           ELSE handled' = skipped /\ UNCHANGED <<cachedAt, cachedValue, cacheHit>>
    /\ idx' = idx + 1
    /\ cmdPc' = IF idx < Len(batch) THEN "handle" ELSE "top"
    /\ UNCHANGED <<now, ticks, monVars, deyeVars, fetchVars, sample,
                   dmu, dpc, dcall, lastFetch,
                   offset, batch, pending, nextId, handed, bcast, terminated>>

\* main.go lines 104-105: both loops have returned, wg.Wait() returns and
\* main with it
MainReturnsWithoutWaiting ==
    /\ cancelled
    /\ ~terminated
    /\ terminated' = TRUE
    /\ UNCHANGED <<now, ticks, monVars, dtekVars, deyeVars, fetchVars, sample,
                   offset, cmdPc, batch, idx, pending, nextId, handed, handled, bcast>>

MainReturns ==
    /\ cancelled
    /\ pollerPc = "exited"
    /\ cmdPc = "exited"
    /\ ~terminated
    /\ terminated' = TRUE
    /\ UNCHANGED <<now, ticks, monVars, dtekVars, deyeVars, fetchVars, sample,
                   offset, cmdPc, batch, idx, pending, nextId, handed, handled, bcast>>

(***************************************************************************)
(* telegram.go: Broadcast, one SendMessage after another.                  *)
(***************************************************************************)
\* the texts checkAndNotify broadcasts
BroadcastTexts ==
    {formatStatusMessage([HasGrid |-> h], l) :
        h \in BOOLEAN, l \in {"DTEK: error", "DTEK: none", "DTEK: window"}}
    \cup {formatPowerOnMessage([HasGrid |-> TRUE], l) :
            l \in {"DTEK: error", "DTEK: none", "DTEK: window"}}
    \cup {formatPowerOffMessage([HasGrid |-> FALSE], l) :
            l \in {"DTEK: error", "DTEK: none", "DTEK: window"}}

\* Broadcast before its first call
NoBroadcast == [active |-> FALSE, text |-> Nil, i |-> 1, attempts |-> <<>>]

\* lines 84-88: where the range loop goes after SendMessage returned
NextRecipientStoppingOnFailure(i, ok) == IF ok THEN i + 1 ELSE Len(userIDs) + 1
NextRecipient(i, ok) == i + 1

\* line 83: Broadcast is called
BroadcastBegin ==
    /\ ~bcast.active
    /\ \E text \in BroadcastTexts :
         bcast' = [active |-> Len(userIDs) > 0, text |-> Some(text), i |-> 1,
                   attempts |-> <<>>]
    /\ UNCHANGED <<now, ticks, monVars, dtekVars, deyeVars, fetchVars, sample,
                   offset, cmdPc, batch, idx, pending, nextId, handed, handled, terminated>>

\* lines 84-88: SendMessage to the next subscriber returns, with an error
\* or without one
BroadcastSend ==
    /\ bcast.active
    /\ \E ok \in BOOLEAN :
         LET n == NextRecipient(bcast.i, ok)
         IN  bcast' = [bcast EXCEPT
                         !.attempts = Append(@, [to |-> userIDs[bcast.i], ok |-> ok]),
                         !.i = n,
                         !.active = n <= Len(userIDs)]
    /\ UNCHANGED <<now, ticks, monVars, dtekVars, deyeVars, fetchVars, sample,
                   offset, cmdPc, batch, idx, pending, nextId, handed, handled, terminated>>

(***************************************************************************)
(* deye.go: GetPowerStatus given any telemetry.                            *)
(***************************************************************************)
\* the readings a power field may hold: absent, or a number of watts
PowerReadings == OptPower \cup {Some(0 - 20)}

SampledStations ==
    StationResults
    \cup [err : {""}, success : {TRUE}, gridPower : PowerReadings,
          purchasePower : PowerReadings]

\* GetPowerStatus is called on the two API results
SamplePower ==
    /\ \E st \in SampledStations, dv \in DeviceResults :
         sample' = Some([station |-> st, device |-> dv,
                         result |-> GetPowerStatus(st, dv)])
    /\ UNCHANGED <<now, ticks, monVars, dtekVars, deyeVars, fetchVars, botVars>>

\* time passes; the ticker of line 109 puts a tick in its channel whenever a
\* multiple of its period is passed (a tick already waiting is kept)
TickerFires(t, d) == (t + d) \div tickerPeriod > t \div tickerPeriod

\* a goroutine is inside a DeyeClient call: its exchanges are bounded by
\* httpClient.Timeout (deye.go line 37), so the clock advances by minutes
\* there, not by weeks
InDeyeCall(p) == pc[p] \in {"getToken", "authLock", "authExch", "reread", "send", "resp"}

Tick(D) ==
    /\ ticks < MaxTicks
    /\ \E d \in D :
         /\ d >= TokenValidity - 1 => \A p \in DeyeProcs : ~InDeyeCall(p)
         /\ now' = now + d
         /\ tickPending' = (tickPending \/ (pollerPc # "exited" /\ TickerFires(now, d)))
    /\ ticks' = ticks + 1
    /\ UNCHANGED <<fetchVars, botVars, sample, pollerPc, lastHasGrid, tickerPeriod,
                   cancelled, poll, prevFlag,
                   statusSent, dtekVars, deyeVars>>

Init ==
    /\ now = 0
    /\ ticks = 0
    /\ pollerPc = "first"
    /\ lastHasGrid = Nil
    /\ tickPending = FALSE
    /\ tickerPeriod = PollIntervalSec \div 60
    /\ cancelled = FALSE
    /\ poll = Nil
    /\ prevFlag = Nil
    /\ statusSent = 0
    /\ dmu = NoOwner
    /\ cachedAt = 0
    /\ cachedValue = Nil
    /\ cacheHit = FALSE
    /\ dpc = [p \in Loops |-> "idle"]
    /\ dcall = [p \in Loops |-> NoDtekCall]
    /\ lastFetch = Nil
    /\ mu = NoOwner
    /\ accessToken = <<>>
    /\ expiresAt = 0
    /\ pc = [p \in DeyeProcs |-> IF p = "main" THEN "start" ELSE "unborn"]
    /\ call = [p \in DeyeProcs |-> NoCall]
    /\ fpc = "idle"
    /\ browser = "none"
    /\ flocal = NoFetch
    /\ offset = 0
    /\ cmdPc = "top"
    /\ batch = <<>>
    /\ idx = 1
    /\ pending = {}
    /\ nextId = FirstId
    /\ handed = [i \in UpdateIds |-> 0]
    /\ handled = Nil
    /\ bcast = NoBroadcast
    /\ terminated = FALSE
    /\ sample = Nil

Next ==
    \/ FirstCheck(StationResults, DeviceResults)
    \/ TickCheck(StationResults, DeviceResults)
    \/ PollerExit
    \/ Cancel
    \/ Tick(Durations)

Spec == Init /\ [][Next]_vars

DeyeDurations == {1, TokenValidity - 1}

NextDeye ==
    \/ MainAuthenticate
    \/ StartLoops
    \/ \E p \in DeyeProcs : BeginCall(p)
    \/ \E p \in DeyeProcs : GetTokenCheck(p)
    \/ \E p \in DeyeProcs : AuthLock(p)
    \/ \E p \in DeyeProcs : AuthReply(p)
    \/ \E p \in DeyeProcs : Reread(p)
    \/ \E p \in DeyeProcs : Send(p)
    \/ \E p \in DeyeProcs : Reply(p)
    \/ Tick(DeyeDurations)

SpecDeye == Init /\ [][NextDeye]_vars

NextDtek ==
    \/ \E p \in Loops : CallGetShutdown(p)
    \/ \E p \in Loops : LockAndCheck(p)
    \/ \E p \in Loops : FetchReturn(p)
    \/ Tick(Durations)

SpecDtek == Init /\ [][NextDtek]_vars

\* two advances of the clock take a cached value from within its TTL to
\* beyond it
CacheDurations == {dtekCacheTTL - 1}

NextCache ==
    \/ \E p \in Loops : CallGetShutdown(p)
    \/ \E p \in Loops : LockAndCheck(p)
    \/ \E p \in Loops : FetchReturn(p)
    \/ ClearCache
    \/ Tick(CacheDurations)

SpecCache == Init /\ [][NextCache]_vars

NextFetch ==
    \/ FetchStart
    \/ Launch
    \/ Connect
    \/ Navigate
    \/ GetCookies
    \/ CsrfElement
    \/ CsrfAttribute
    \/ SendRequest
    \/ ReadBody
    \/ ParseResponse

SpecFetch == Init /\ [][NextFetch]_vars

NextBot ==
    \/ Arrive(MaxUpdates, Messages)
    \/ CallGetUpdates
    \/ GetUpdatesReturn
    \/ SleepDone
    \/ HandleUpdate(StationResults, DeviceResults)

SpecBot == Init /\ [][NextBot]_vars

NextBroadcast == BroadcastBegin \/ BroadcastSend

SpecBroadcast == Init /\ [][NextBroadcast]_vars

NextPower == SamplePower

SpecPower == Init /\ [][NextPower]_vars

\* what the shutdown is checked with: telemetry that fails or shows the grid
\* present, one /status of a subscriber, the clock advancing by the ticker's
\* period
StopStations == {st \in StationResults :
                   \/ st.err = "request failed"
                   \/ st.success /\ st.gridPower = Some(150) /\ st.purchasePower = Nil}
StopDevices == {dv \in DeviceResults : dv.success /\ dv.deviceList = <<1>>}
StopMessages == {Some([chat |-> userIDs[1], text |-> "/status"])}
StopDurations == {PollIntervalSec \div 60}

NextStop ==
    \/ FirstCheck(StopStations, StopDevices)
    \/ TickCheck(StopStations, StopDevices)
    \/ PollerExit
    \/ Tick(StopDurations)
    \/ Arrive(1, StopMessages)
    \/ CmdExit
    \/ CallGetUpdates
    \/ GetUpdatesReturn
    \/ SleepDone
    \/ HandleUpdate(StopStations, StopDevices)
    \/ Cancel
    \/ MainReturns

\* every call a loop makes returns, and a loop at its select or at the top
\* of its body goes on; the signal may never come
StopFairness ==
    /\ WF_vars(FirstCheck(StopStations, StopDevices))
    /\ WF_vars(PollerExit)
    /\ WF_vars(CmdExit)
    /\ WF_vars(GetUpdatesReturn)
    /\ WF_vars(SleepDone)
    /\ WF_vars(HandleUpdate(StopStations, StopDevices))
    /\ WF_vars(MainReturns)

SpecStop == Init /\ [][NextStop]_vars /\ StopFairness

\* the two loops side by side, the station answering with a failure, with
\* grid power or without, and a subscriber asking for the status
FlagStations == {st \in StationResults :
                   \/ st.err = "request failed"
                   \/ st.success /\ st.gridPower = Some(150) /\ st.purchasePower = Nil
                   \/ st.success /\ st.gridPower = Some(0) /\ st.purchasePower = Nil}

NextFlag ==
    \/ FirstCheck(FlagStations, StopDevices)
    \/ TickCheck(FlagStations, StopDevices)
    \/ Tick(StopDurations)
    \/ Arrive(1, StopMessages)
    \/ CallGetUpdates
    \/ GetUpdatesReturn
    \/ SleepDone
    \/ HandleUpdate(FlagStations, StopDevices)

SpecFlag == Init /\ [][NextFlag]_vars


(***************************************************************************)
(* The polling loop (Spec).                                                *)
(***************************************************************************)
\* C1: a successful poll that is not the first successful one broadcasts
\* if and only if its flag differs from the flag of the latest successful
\* poll before it, failed polls in between not counting.
C1_NotifyIffFlagChanged ==
    (poll # Nil /\ ~poll[1].failed /\ prevFlag # Nil)
        => ((poll[1].sent # <<>>) <=> (poll[1].flag # prevFlag[1]))

\* a successful poll right after a failed one, its flag differing from the
\* latest successful poll's, has broadcast
C1_Witness ==
    /\ poll # Nil /\ ~poll[1].failed /\ poll[1].prevFailed
    /\ prevFlag # Nil /\ poll[1].flag # prevFlag[1]
    /\ poll[1].sent # <<>>

\* C2: the first successful poll broadcasts exactly one message, the
\* initial status, whatever its flag and however many polls failed before
\* it; no other poll broadcasts an initial status.
C2_FirstPollInitialStatus ==
    /\ statusSent <= 1
    /\ poll # Nil =>
         /\ (~poll[1].failed /\ prevFlag = Nil)
              => (Len(poll[1].sent) = 1 /\ poll[1].sent[1].kind = "status")
         /\ (poll[1].failed \/ prevFlag # Nil)
              => \A i \in 1..Len(poll[1].sent) : poll[1].sent[i].kind # "status"

\* the first successful poll came after failed ones, found the grid absent
\* and has broadcast the initial status
C2_Witness ==
    /\ poll # Nil /\ poll[1].n >= 3 /\ ~poll[1].failed /\ prevFlag = Nil
    /\ ~poll[1].flag
    /\ Len(poll[1].sent) = 1 /\ poll[1].sent[1].kind = "status"

\* C3: a poll whose GetPowerStatus fails (a doRequest error or an answer
\* with success=false) leaves lastHasGrid as it was and broadcasts nothing;
\* the loop is back at its select with the ticker's period unchanged (it has
\* left only if the context was cancelled).
C3_FailedPollSkipped ==
    (poll # Nil /\ poll[1].failed)
        => /\ lastHasGrid = poll[1].before
           /\ poll[1].sent = <<>>
           /\ pollerPc = "select" \/ (pollerPc = "exited" /\ cancelled)
           /\ tickerPeriod = PollIntervalSec \div 60

\* a poll failed on success=false while a state was stored, and the next
\* tick is waiting at the select
C3_Witness ==
    /\ poll # Nil /\ poll[1].failed /\ poll[1].before # Nil
    /\ lastHasGrid = poll[1].before
    /\ pollerPc = "select" /\ tickPending /\ ~cancelled

(***************************************************************************)
(* The token and doRequest (SpecDeye).                                     *)
(***************************************************************************)
\* C4: within one doRequest call a 401 leads to one re-authentication and
\* one retry, and a 401 to the retry ends the call with an error: no
\* goroutine is ever re-authenticating for a 401 that answered a retry.
C4_OneReauthPerCall ==
    \A p \in DeyeProcs :
        (pc[p] \in {"authLock", "authExch"} /\ call[p].why = "reauth")
            => call[p].depth = 0

\* C5: the check of the token and the authentication it leads to are one
\* critical section, so getToken sends an authentication request only while
\* the token is still missing or expired: a caller that raced with another
\* one uses the token the other obtained.
C5_SingleAuthPerExpiry ==
    \A p \in DeyeProcs :
        (pc[p] = "authExch" /\ call[p].why = "getToken") => call[p].needed

\* C6, as claimed: a request that has been sent carries a non-empty token
\* whose expiry instant had not passed when it was sent.
C6_TokenValidWhenSent ==
    \A p \in DeyeProcs :
        pc[p] = "resp" => (call[p].token # <<>> /\ ~call[p].sentExpired)

\* C6, amended: a request that has been sent carries a non-empty token, and
\* when getToken found the token missing or expired at the start of the
\* call, the token carried was obtained by an authentication after that.
C6_TokenCheckedBeforeSend ==
    \A p \in DeyeProcs :
        pc[p] = "resp"
            => /\ call[p].token # <<>>
               /\ call[p].stale => call[p].fresh

\* a request was sent with a token that had expired when the call started
\* and was replaced before the request
C6_Witness ==
    \E p \in Loops :
        /\ pc[p] = "resp" /\ call[p].stale /\ call[p].fresh
        /\ call[p].token # <<>> /\ ~call[p].sentExpired

\* C7, as claimed: a call in which an authentication failed has returned an
\* error and has sent no telemetry request.
C7_NoRequestInFailedCall ==
    \A p \in Loops :
        call[p].authFailed
            => /\ pc[p] = "idle"
               /\ call[p].result \in {"get token", "re-auth failed"}
               /\ ~call[p].sent

\* C7, amended: a call in which an authentication failed has returned an
\* error, and neither a telemetry request nor another authentication
\* followed the failure in that call.
C7_NothingAfterFailedAuth ==
    \A p \in Loops :
        call[p].authFailed
            => /\ pc[p] = "idle"
               /\ call[p].result \in {"get token", "re-auth failed"}
               /\ ~call[p].afterFail

\* a re-authentication after a 401 failed: the call returned the error, the
\* request answered 401 being the only one it sent
C7_Witness ==
    \E p \in Loops :
        /\ call[p].authFailed /\ call[p].sent /\ ~call[p].afterFail
        /\ pc[p] = "idle" /\ call[p].result = "re-auth failed"

(***************************************************************************)
(* The outage cache (SpecDtek).                                            *)
(***************************************************************************)
\* C8: a GetShutdown call that examines the cache less than the TTL after
\* the latest successful FetchShutdowns returns what that fetch returned
\* (absent included) without calling FetchShutdowns; a call that examines
\* it once the TTL has elapsed calls FetchShutdowns, once.
C8_CacheWithinTTL ==
    \A p \in Loops :
        (dcall[p].checked /\ dcall[p].snap # Nil)
            => LET h == dcall[p]
               IN  IF h.checkedAt - h.snap[1].at < dtekCacheTTL
                   THEN /\ h.fetches = 0
                        /\ h.result = Some([err |-> "", shutdown |-> h.snap[1].value])
                   ELSE h.fetches = 1

\* a call made 9 minutes after a fetch that found no outage was served
\* "no outage" without fetching
C8_Witness ==
    \E p \in Loops :
        /\ dcall[p].checked /\ dcall[p].snap # Nil
        /\ dcall[p].snap[1].value = Nil
        /\ dcall[p].checkedAt - dcall[p].snap[1].at = dtekCacheTTL - 1
        /\ dcall[p].fetches = 0
        /\ dcall[p].result = Some([err |-> "", shutdown |-> Nil])

\* C9: the step in which FetchShutdowns returns an error inside GetShutdown
\* leaves cachedAt, cachedValue and cacheHit as they were, and GetShutdown
\* returns the error.
C9_FailedFetchKeepsCache ==
    [][\A p \in Loops :
          (dpc[p] = "fetch" /\ dpc'[p] = "idle" /\ dcall'[p].fetchFailed)
              => /\ cachedAt' = cachedAt
                 /\ cachedValue' = cachedValue
                 /\ cacheHit' = cacheHit
                 /\ dcall'[p].result # Nil
                 /\ dcall'[p].result[1].err # ""]_vars

\* a fetch failed while an expired cached record existed: the record is
\* still there and the caller got the error
C9_Witness ==
    \E p \in Loops :
        /\ dpc[p] = "idle" /\ dcall[p].fetchFailed
        /\ dcall[p].result # Nil /\ dcall[p].result[1].err # ""
        /\ cacheHit /\ cachedValue # Nil /\ now - cachedAt >= dtekCacheTTL
        /\ lastFetch = Some([at |-> cachedAt, value |-> cachedValue])

\* C10: at most one FetchShutdowns is running at any time, and a caller
\* that waited for mu while another caller's fetch succeeded, and examines
\* the cache within the TTL of that fetch, is served its result without
\* fetching.
C10_OneFetchAtATime ==
    /\ Cardinality({p \in Loops : dpc[p] = "fetch"}) <= 1
    /\ \A p \in Loops :
         (dcall[p].waited /\ dcall[p].checked
            /\ dcall[p].checkedAt - dcall[p].snap[1].at < dtekCacheTTL)
             => /\ dcall[p].fetches = 0
                /\ dcall[p].result = Some([err |-> "", shutdown |-> dcall[p].snap[1].value])

\* both loops called GetShutdown with the cache empty; one fetched, the
\* other waited and was then served the fetched record
C10_Witness ==
    \E p, q \in Loops :
        /\ p # q
        /\ dcall[p].fetches = 1 /\ dcall[p].snap = Nil /\ ~dcall[p].fetchFailed
        /\ dpc[p] = "idle" /\ dpc[q] = "idle"
        /\ dcall[q].waited /\ dcall[q].checked /\ dcall[q].fetches = 0
        /\ dcall[q].result = dcall[p].result
        /\ dcall[q].result[1].shutdown # Nil

(***************************************************************************)
(* The two locks (SpecDtek).                                               *)
(***************************************************************************)
\* C11: neither lock is held while a network exchange or a browser fetch is
\* in progress: no goroutine is inside Authenticate's exchange holding the
\* token lock, and none is inside FetchShutdowns holding the cache lock, so
\* a loop waiting for a lock never waits out the other loop's exchange.
C11_NoLockAcrossExchange ==
    /\ \A p \in DeyeProcs : pc[p] = "authExch" => mu # p
    /\ \A p \in Loops : dpc[p] = "fetch" => dmu # p

(***************************************************************************)
(* FetchShutdowns (SpecFetch).                                             *)
(***************************************************************************)
\* C12: a FetchShutdowns call that launched the browser has closed it by
\* the time it returns, on success and on every failure after the launch.
C12_BrowserClosedOnReturn ==
    (fpc = "idle" /\ flocal.launched) => browser = "closed"

\* C13: the schedule request is sent only when cookies of the origin and
\* the CSRF token were both extracted, and a call that found no cookies or
\* no CSRF token has returned an error without sending the request.
C13_RequestNeedsCookiesAndCsrf ==
    LET noCookies == flocal.cookies = Nil \/ flocal.cookies = Some(<<>>)
        noCsrf == flocal.csrf = Nil
    IN  /\ flocal.requests > 0 => (~noCookies /\ ~noCsrf)
        /\ (fpc = "idle" /\ flocal.result # Nil /\ (noCookies \/ noCsrf))
             => (flocal.result[1].err # "" /\ flocal.requests = 0)

\* C14: a call whose response parsed has returned an error if the result
\* flag is false, (absent, no error) if the flag is true and the house is
\* no key of the data, and the house's record if it is a key.
C14_ParsedResponseResult ==
    (fpc = "idle" /\ flocal.resp # Nil /\ flocal.resp[1].parsed)
        => LET b == flocal.resp[1]
               r == flocal.result[1]
           IN  IF ~b.result THEN r.err # "" /\ r.shutdown = Nil
               ELSE IF House \notin DOMAIN b.data THEN r = [err |-> "", shutdown |-> Nil]
               ELSE r = [err |-> "", shutdown |-> Some(b.data[House])]

\* the flag was true and the data held another house only: the call
\* returned absent without an error, the browser closed
C14_Witness ==
    /\ fpc = "idle" /\ flocal.resp # Nil /\ flocal.resp[1].parsed
    /\ flocal.resp[1].result
    /\ DOMAIN flocal.resp[1].data = Houses \ {House}
    /\ flocal.result = Some([err |-> "", shutdown |-> Nil])
    /\ browser = "closed"

(***************************************************************************)
(* Broadcast (SpecBroadcast).                                              *)
(***************************************************************************)
\* C15: Broadcast attempts the subscribers in the order of the list, one
\* attempt each whatever the attempts before returned, and has attempted
\* every subscriber once when it returns.
C15_BroadcastAttemptsEveryone ==
    /\ Len(bcast.attempts) <= Len(userIDs)
    /\ \A i \in DOMAIN bcast.attempts : bcast.attempts[i].to = userIDs[i]
    /\ bcast.active => bcast.i = Len(bcast.attempts) + 1
    /\ (bcast.text # Nil /\ ~bcast.active) => Len(bcast.attempts) = Len(userIDs)

\* a Broadcast to three subscribers has returned: the second delivery
\* failed, the first and the third were attempted and succeeded
C15_Witness ==
    /\ bcast.text # Nil /\ ~bcast.active
    /\ Len(bcast.attempts) = 3
    /\ bcast.attempts[1].ok /\ ~bcast.attempts[2].ok /\ bcast.attempts[3].ok
    /\ bcast.attempts[3].to = userIDs[3]

(***************************************************************************)
(* The command loop (SpecBot).                                             *)
(***************************************************************************)
\* C16: after GetUpdates received a non-empty batch, the offset of the next
\* request is one more than the highest identifier in the batch, in
\* whatever order the batch lists its updates.
C16_OffsetPastHighest ==
    batch # <<>> => offset = Highest(batch) + 1

\* C17: the offset never decreases, a failed or empty poll leaves it as it
\* was, and every update is returned by GetUpdates exactly once: never
\* again in a later poll, and never forgotten by the server unreturned.
C17_CursorExactlyOnce ==
    /\ [][offset' >= offset]_vars
    /\ [][(cmdPc = "poll" /\ (cmdPc' = "sleep" \/ batch' = <<>>)) => offset' = offset]_vars
    /\ [](\A i \in UpdateIds :
            /\ handed[i] <= 1
            /\ (i < nextId /\ i \notin {u.id : u \in pending}) => handed[i] >= 1)

\* C18: an update without a message, or with a message of a chat that is
\* not in the subscriber list, leads to no status fetch and no message; a
\* reply goes to the chat the command came from; and the loop goes on with
\* the next update of the batch.
C18_OnlySubscribersServed ==
    /\ handled # Nil =>
         LET u == handled[1].update
         IN  /\ (u.message = Nil
                   \/ u.message[1].chat \notin {userIDs[i] : i \in DOMAIN userIDs})
                  => (~handled[1].fetched /\ handled[1].sent = <<>>)
             /\ \A i \in DOMAIN handled[1].sent :
                  /\ u.message # Nil
                  /\ handled[1].sent[i].to = u.message[1].chat
    /\ cmdPc = "handle" =>
         /\ idx <= Len(batch)
         /\ idx > 1 => (handled # Nil /\ handled[1].update = batch[idx - 1])

\* a /status from a chat that is no subscriber was dropped, nothing fetched
\* and nothing sent, and the loop is at the next update of the batch
C18_Witness ==
    /\ handled # Nil
    /\ handled[1].update.message = Some([chat |-> 999, text |-> "/status"])
    /\ ~handled[1].fetched /\ handled[1].sent = <<>>
    /\ cmdPc = "handle" /\ idx = 2 /\ batch[idx].message # Nil

C21_CacheChangesOnlyOnFetch ==
    [][/\ <<cacheHit, cachedValue, cachedAt>>' # <<cacheHit, cachedValue, cachedAt>>
            => \E p \in Loops :
                 /\ dpc[p] = "fetch" /\ dpc'[p] = "idle" /\ ~dcall'[p].fetchFailed
                 /\ cacheHit' /\ cachedAt' = now
                 /\ cachedValue' = dcall'[p].result[1].shutdown
       /\ cacheHit => cacheHit']_vars

\* C21, amended: cacheHit, cachedValue and cachedAt change in the step of a
\* successful fetch, which sets the three together, and in ClearCache, which
\* clears cacheHit alone while nobody holds mu; and a GetShutdown call that
\* finds cacheHit cleared fetches, whatever the age of the cached value.
C21_CacheChangesOnFetchOrClear ==
    [][/\ <<cacheHit, cachedValue, cachedAt>>' # <<cacheHit, cachedValue, cachedAt>>
            => \/ \E p \in Loops :
                    /\ dpc[p] = "fetch" /\ dpc'[p] = "idle" /\ ~dcall'[p].fetchFailed
                    /\ cacheHit' /\ cachedAt' = now
                    /\ cachedValue' = dcall'[p].result[1].shutdown
               \/ /\ cacheHit /\ ~cacheHit'
                  /\ cachedValue' = cachedValue /\ cachedAt' = cachedAt
                  /\ dmu = NoOwner /\ dmu' = NoOwner
                  /\ dpc' = dpc
       /\ \A p \in Loops :
            (dpc[p] = "lock" /\ dpc'[p] # "lock" /\ ~cacheHit) => dpc'[p] = "fetch"]_vars

\* the cache was cleared within the TTL of a successful fetch, its value
\* and timestamp still those of the fetch, and a GetShutdown call is
\* fetching again although the TTL has not elapsed
C21_Witness ==
    \E p \in Loops :
        /\ ~cacheHit /\ lastFetch # Nil
        /\ cachedAt = lastFetch[1].at /\ cachedValue = lastFetch[1].value
        /\ dpc[p] = "fetch" /\ dcall[p].snap = lastFetch
        /\ dcall[p].checkedAt - lastFetch[1].at < dtekCacheTTL

(***************************************************************************)
(* The stored flag, with the command listener running (SpecFlag).          *)
(***************************************************************************)
\* C22: lastHasGrid is unknown (Nil) as long as no poll has succeeded, and
\* otherwise holds the grid-present flag of the most recent successful
\* poll; it changes only in a step of the polling loop's checkAndNotify, and
\* no step in which the command listener handles an update changes it.
C22_StoredFlagIsLatestSuccess ==
    /\ [](lastHasGrid = IF poll # Nil /\ ~poll[1].failed THEN Some(poll[1].flag)
                        ELSE prevFlag)
    /\ [][lastHasGrid' # lastHasGrid
            => /\ pollerPc \in {"first", "select"} /\ poll' # poll
               /\ ~poll'[1].failed /\ lastHasGrid' = Some(poll'[1].flag)
               /\ cmdPc' = cmdPc /\ handled' = handled]_vars
    /\ [][(cmdPc = "handle" /\ idx' # idx) => lastHasGrid' = lastHasGrid]_vars

\* the stored flag says no grid, from the latest successful poll, a later
\* poll having failed, while a /status command was answered with a status
\* that says grid present
C22_Witness ==
    /\ lastHasGrid = Some(FALSE)
    /\ poll # Nil /\ poll[1].failed /\ prevFlag = Some(FALSE)
    /\ handled # Nil /\ handled[1].fetched
    /\ Len(handled[1].sent) = 1
    /\ handled[1].sent[1].text.kind = "status" /\ handled[1].sent[1].text.hasGrid

(***************************************************************************)
(* The alerts of the monitor (Spec).  poll[1].prevNote is the latest       *)
(* message broadcast before the latest poll, poll[1].sent the message of   *)
(* the latest poll.                                                        *)
(***************************************************************************)
\* C23: an alert matches the direction of its transition (power-restored
\* for a sample with grid present after a stored flag of absent, power-lost
\* for the opposite); an alert that follows an alert is of the other kind;
\* and the first alert, which follows the initial status, is power-restored
\* if the status reported grid absent and power-lost if it reported grid
\* present.  The initial status itself follows no message.
C23_AlertsAlternate ==
    (poll # Nil /\ poll[1].sent # <<>>) =>
        LET h == poll[1]
            m == h.sent[1]
        IN  /\ m.kind = "power on" =>
                /\ h.flag /\ h.before = Some(FALSE) /\ h.prevNote # Nil
                /\ \/ h.prevNote[1].kind = "power off"
                   \/ h.prevNote[1].kind = "status" /\ ~h.prevNote[1].hasGrid
            /\ m.kind = "power off" =>
                /\ ~h.flag /\ h.before = Some(TRUE) /\ h.prevNote # Nil
                /\ \/ h.prevNote[1].kind = "power on"
                   \/ h.prevNote[1].kind = "status" /\ h.prevNote[1].hasGrid
            /\ m.kind = "status" => h.prevNote = Nil
            /\ m.kind \in {"status", "power on", "power off"}

\* a power-restored alert has followed a power-lost alert
C23_Witness ==
    /\ poll # Nil /\ poll[1].sent # <<>>
    /\ poll[1].sent[1].kind = "power on"
    /\ poll[1].prevNote # Nil /\ poll[1].prevNote[1].kind = "power off"

\* C24: a poll whose GetShutdown returned an error has broadcast exactly one
\* message all the same, carrying the error placeholder line and the sample's
\* flag, of the kind the stored flag before the poll and the sample call for
\* (the initial status when the flag was unknown, else the alert of the
\* sample's direction), and the stored flag is the sample's flag.
C24_ScheduleFailureKeepsNotification ==
    (poll # Nil /\ poll[1].dtekErr) =>
        LET h == poll[1]
        IN  /\ ~h.failed
            /\ h.before = Nil \/ h.before # Some(h.flag)
            /\ Len(h.sent) = 1
            /\ h.sent[1].line = "DTEK: error"
            /\ h.sent[1].hasGrid = h.flag
            /\ h.sent[1].kind = IF h.before = Nil THEN "status"
                                ELSE IF h.flag THEN "power on" ELSE "power off"
            /\ lastHasGrid = Some(h.flag)

\* the schedule source failed during the poll that found the grid gone: the
\* power-lost alert went out with the placeholder and the flag was stored
C24_Witness ==
    /\ poll # Nil /\ poll[1].dtekErr
    /\ poll[1].before = Some(TRUE) /\ ~poll[1].flag
    /\ poll[1].sent = <<formatPowerOffMessage([HasGrid |-> FALSE], "DTEK: error")>>
    /\ lastHasGrid = Some(FALSE)

(***************************************************************************)
(* What Authenticate stores (SpecDeye).                                    *)
(***************************************************************************)
\* C25: the step in which an Authenticate call returns an error leaves
\* accessToken and expiresAt as they were; the step in which it succeeds
\* stores both, a token with its prefix and the expiry TokenValidity from
\* now; and no other step changes either of the two.
C25_TokenAndExpiryTogether ==
    [][/\ \A p \in DeyeProcs :
            (pc[p] = "authExch" /\ pc'[p] # "authExch") =>
                IF call'[p].authFailed
                THEN accessToken' = accessToken /\ expiresAt' = expiresAt
                ELSE /\ accessToken' # <<>> /\ accessToken'[1] = "Bearer"
                     /\ expiresAt' = now + TokenValidity
       /\ (accessToken' # accessToken \/ expiresAt' # expiresAt)
            => \E p \in DeyeProcs :
                 pc[p] = "authExch" /\ pc'[p] # "authExch" /\ ~call'[p].authFailed]_vars

\* a loop's Authenticate has failed after an earlier one had succeeded and
\* time had passed: the token and the expiry of the earlier one are still
\* stored
C25_Witness ==
    \E p \in DeyeProcs \ {"main"} :
        /\ pc[p] = "idle" /\ call[p].authFailed
        /\ accessToken # <<>>
        /\ expiresAt >= TokenValidity /\ expiresAt < now + TokenValidity

====
